---- MODULE Spec2Model ----
(***************************************************************************)
(* A model of the java-ast emission engine: the Writer (output buffer,     *)
(* indentation, import registries, final-document assembly) and the Class  *)
(* node that renders itself through it.                                    *)
(*                                                                         *)
(* Text is modelled as the program holds it: a string is the sequence of   *)
(* its characters, each character a one-character string.  An optional     *)
(* value (a parameter or field that may be undefined) is a sequence of     *)
(* length 0 (undefined) or 1 (the value).                                  *)
(***************************************************************************)
EXTENDS Integers, Sequences, FiniteSets

VARIABLES
  writer,      \* the Writer object: a record of its private fields, plus the
               \* history field `registered` (the type references passed to
               \* addReference so far), which the program does not hold
  call,        \* the last call made on the Writer or the Class: the method's
               \* name, its arguments and what it returned (<<>> for a void
               \* method, <<document>> for toString); "new" after construction
  cls          \* the root Class object being built: <<>> before construction,
               \* <<class>> after

vars == <<writer, call, cls>>

----------------------------------------------------------------------------
(* Bounds of the model *)

\* Appending primitives are called while the buffer holds at most this many
\* characters.
MaxBuffer == 1

\* indent() is called while the level is below this.
MaxIndent == 2

----------------------------------------------------------------------------
(* Strings *)

None == <<>>
Some(x) == <<x>>

NL == "\n"

\* The characters of the model in ascending UTF-16 code unit order.
CodeUnits ==
  <<"\n", " ", "(", ")", "*", ",", ".", "/", ";", "<", ">", "@",
    "A", "B", "C", "D", "E", "F", "G", "H", "I", "J", "K", "L", "M",
    "N", "O", "P", "Q", "R", "S", "T", "U", "V", "W", "X", "Y", "Z",
    "a", "b", "c", "d", "e", "f", "g", "h", "i", "j", "k", "l", "m",
    "n", "o", "p", "q", "r", "s", "t", "u", "v", "w", "x", "y", "z",
    "{", "}">>

CharCode(c) == CHOOSE i \in 1..Len(CodeUnits) : CodeUnits[i] = c

\* The default comparison of Array.prototype.sort, from index i on: a before
\* b iff a is smaller in code unit order (a proper prefix is smaller).
RECURSIVE StrLessFrom(_, _, _)
StrLessFrom(a, b, i) ==
  IF i > Len(b) THEN FALSE
  ELSE IF i > Len(a) THEN TRUE
  ELSE IF a[i] = b[i] THEN StrLessFrom(a, b, i + 1)
  ELSE CharCode(a[i]) < CharCode(b[i])

StrLess(a, b) == StrLessFrom(a, b, 1)

\* The array without the element at index k (from 1).
removeAt(a, k) == SubSeq(a, 1, k - 1) \o SubSeq(a, k + 1, Len(a))

\* Mutant of sort: the array is left in the order it was built.
sort_Missing(a) == a

\* Array.prototype.sort() with the default comparison.
RECURSIVE sort(_)
sort(a) ==
  IF Len(a) = 0 THEN <<>>
  ELSE LET m == CHOOSE i \in 1..Len(a) :
                  /\ \A j \in 1..Len(a) : ~StrLess(a[j], a[i])
                  /\ \A j \in 1..(i - 1) : a[j] # a[i]
       IN  <<a[m]>> \o sort(removeAt(a, m))

\* [...set]: the elements of a Set as an array.  A Set iterates in insertion
\* order, which the model does not keep: the only array the program builds
\* this way is sorted before it is read.
RECURSIVE spread(_)
spread(S) ==
  IF S = {} THEN <<>>
  ELSE LET x == CHOOSE y \in S : TRUE IN <<x>> \o spread(S \ {x})

\* [...new Set(array)]: the array without repeated elements, first
\* occurrences kept.
uniq(a) ==
  LET keep == {i \in 1..Len(a) : \A j \in 1..(i - 1) : a[j] # a[i]}
      RECURSIVE pick(_)
      pick(i) == IF i > Len(a) THEN <<>>
                 ELSE IF i \in keep THEN <<a[i]>> \o pick(i + 1)
                 ELSE pick(i + 1)
  IN  pick(1)

\* Array.prototype.forEach threading the state through the callback:
\* Step(state, element, index), index from 0 as in the program.
forEach(seq, w, Step(_, _, _)) ==
  LET RECURSIVE upTo(_)
      upTo(n) == IF n = 0 THEN w ELSE Step(upTo(n - 1), seq[n], n - 1)
  IN  upTo(Len(seq))

\* String.prototype.repeat
RECURSIVE repeat(_, _)
repeat(s, n) == IF n = 0 THEN <<>> ELSE s \o repeat(s, n - 1)

\* String.prototype.split with a one-character separator: the pieces between
\* the separator's occurrences, in order.
split(s, sep) ==
  LET \* where the separators are, in order
      at == SelectSeq([i \in 1..Len(s) |-> i], LAMBDA i : s[i] = sep)
      \* where piece k ends: at the k-th separator, or after the last character
      end(k) == IF k > Len(at) THEN Len(s) + 1 ELSE at[k]
  IN  [k \in 1..(Len(at) + 1) |->
         SubSeq(s, (IF k = 1 THEN 0 ELSE end(k - 1)) + 1, end(k) - 1)]

\* Array.prototype.join
RECURSIVE join(_, _)
join(parts, sep) ==
  IF Len(parts) = 0 THEN <<>>
  ELSE IF Len(parts) = 1 THEN parts[1]
  ELSE parts[1] \o sep \o join(Tail(parts), sep)

PackageKw == <<"p", "a", "c", "k", "a", "g", "e", " ">>
ImportKw == <<"i", "m", "p", "o", "r", "t", " ">>
IndentUnit == <<" ", " ", " ", " ">>
MockNodeContent ==
  <<"M", "o", "c", "k", "N", "o", "d", "e", " ", "c", "o", "n", "t", "e", "n", "t">>

----------------------------------------------------------------------------
(* ClassReference: a (name, packageName) pair *)

ClassReference(name, packageName) == [name |-> name, packageName |-> packageName]

----------------------------------------------------------------------------
(* Writer *)

\* new Writer(config); config.skipPackageDeclaration is optional.
Writer(config) ==
  [ indentLevel |-> 0,
    buffer |-> <<>>,
    imports |-> {},
    references |-> {},
    registered |-> {},
    packageName |-> config.packageName,
    skipPackageDeclaration |->
      IF config.skipPackageDeclaration = None THEN FALSE
      ELSE config.skipPackageDeclaration[1] ]

indent(w) == [w EXCEPT !.indentLevel = @ + 1]

\* Mutant of dedent: no floor at zero.
dedent_NoFloor(w) == [w EXCEPT !.indentLevel = @ - 1]

dedent(w) == IF w.indentLevel > 0 THEN [w EXCEPT !.indentLevel = @ - 1] ELSE w

getIndentation(w) == repeat(IndentUnit, w.indentLevel)

\* Mutant of write: the text replaces the buffer.
write_Overwrite(w, text) == [w EXCEPT !.buffer = text]

write(w, text) == [w EXCEPT !.buffer = @ \o text]

\* Mutant of writeLine: the indentation is written also when the text is
\* omitted.
writeLine_IndentAlways(w, text) ==
  [w EXCEPT !.buffer = @ \o repeat(IndentUnit, w.indentLevel)
                         \o (IF text # None THEN text[1] ELSE <<>>) \o <<NL>>]

\* text is optional: None when the argument is omitted.
writeLine(w, text) ==
  LET w1 == IF text # None
            THEN [w EXCEPT !.buffer = @ \o getIndentation(w) \o text[1]]
            ELSE w
  IN  [w1 EXCEPT !.buffer = @ \o <<NL>>]

newLine(w) == [w EXCEPT !.buffer = @ \o <<NL>>]

\* Mutant of writeNewLineIfLastLineNot: the buffer is not tested for emptiness.
writeNewLineIfLastLineNot_NoEmptyCheck(w) ==
  IF Len(w.buffer) = 0 \/ w.buffer[Len(w.buffer)] # NL
  THEN [w EXCEPT !.buffer = @ \o <<NL>>]
  ELSE w

writeNewLineIfLastLineNot(w) ==
  IF Len(w.buffer) > 0 /\ w.buffer[Len(w.buffer)] # NL
  THEN [w EXCEPT !.buffer = @ \o <<NL>>]
  ELSE w

\* `${reference.packageName}.${reference.name}`
qualifiedName(reference) == reference.packageName \o <<".">> \o reference.name

\* Mutant of addReference: the reference's package is not compared with the
\* target package.
addReference_NoPackageCheck(w, reference) ==
  [w EXCEPT !.registered = @ \cup {reference},
            !.references = @ \cup {reference.packageName \o <<".">> \o reference.name}]

\* Every call is recorded in the history field.
addReference(w, reference) ==
  LET w0 == [w EXCEPT !.registered = @ \cup {reference}]
  IN  IF reference.packageName = w.packageName THEN w0
      ELSE [w0 EXCEPT !.references = @ \cup {qualifiedName(reference)}]

addImport(w, importName) == [w EXCEPT !.imports = @ \cup {importName}]

\* Mutant of allImports: the two arrays are joined without the Set.
allImports_NoSet(w) == spread(w.imports) \o spread(w.references)

\* [...new Set<string>([...this.imports, ...this.references])]
allImports(w) == uniq(spread(w.imports) \o spread(w.references))

\* Mutant of packageDeclaration: no blank line after the package line.
packageDeclaration_NoBlankLine(w) ==
  IF ~w.skipPackageDeclaration
  THEN PackageKw \o w.packageName \o <<";", NL>>
  ELSE <<>>

\* `package ${this.packageName};\n\n`, unless skipped
packageDeclaration(w) ==
  IF ~w.skipPackageDeclaration
  THEN PackageKw \o w.packageName \o <<";", NL, NL>>
  ELSE <<>>

\* `import ${importName};\n`
importLine(importName) == ImportKw \o importName \o <<";", NL>>

\* allImports.sort().forEach(...): one line per import, in sorted order
importBlock(w) ==
  forEach(sort(allImports(w)), <<>>,
          LAMBDA result, importName, i : result \o importLine(importName))

\* Mutant of importSeparator: the blank line is written unconditionally.
importSeparator_Always(w) == <<NL>>

\* The blank line after the imports
importSeparator(w) == IF Len(allImports(w)) > 0 THEN <<NL>> ELSE <<>>

toString(w) ==
  packageDeclaration(w) \o importBlock(w) \o importSeparator(w) \o w.buffer

----------------------------------------------------------------------------
(* Nodes *)

\* The node of Writer.spec.ts: write(writer) writes "MockNode content".
MockNode == [kind |-> "MockNode"]

\* A leaf construct (Field, Method, Interface, Enum, Annotation, CodeBlock):
\* write(writer) emits the construct's literal text.
Leaf(text) == [kind |-> "Leaf", text |-> text]

\* Parameter: write(writer) emits "<type> <name>"; docs is optional.
Parameter(name, type, docs) == [name |-> name, type |-> type, docs |-> docs]

\* The string values of the Access enum.
Access_Public == <<"p", "u", "b", "l", "i", "c">>
Access_Private == <<"p", "r", "i", "v", "a", "t", "e">>

\* Truthiness of an optional string: undefined and "" are falsy.
truthy(s) == s # None /\ s[1] # <<>>

\* `x || dflt` for an optional x that is truthy whenever defined-and-true
orElse(x, dflt) == IF x = None THEN dflt ELSE x[1]

----------------------------------------------------------------------------
(* Class *)

\* new Class(args): the optional arguments are options; the member lists start
\* empty.
Class(args) ==
  [ kind |-> "Class",
    name |-> args.name,
    packageName |-> args.packageName,
    access |-> args.access,
    abstract_ |-> IF args.abstract_ = None THEN FALSE ELSE args.abstract_[1],
    final_ |-> IF args.final_ = None THEN FALSE ELSE args.final_[1],
    static_ |-> IF args.static_ = None THEN FALSE ELSE args.static_[1],
    extends_ |-> args.extends_,
    implements_ |-> orElse(args.implements_, <<>>),
    isNestedClass |->
      IF args.isNestedClass = None THEN FALSE ELSE args.isNestedClass[1],
    annotations |-> orElse(args.annotations, <<>>),
    javadoc |-> args.javadoc,
    typeParameters |-> orElse(args.typeParameters, <<>>),
    reference |-> ClassReference(args.name, args.packageName),
    fields |-> <<>>,
    constructors |-> <<>>,
    methods |-> <<>>,
    nestedClasses |-> <<>>,
    nestedInterfaces |-> <<>>,
    nestedEnums |-> <<>> ]

addField(c, field) == [c EXCEPT !.fields = Append(@, field)]

\* Mutant of addConstructor: the constructor is put in front of the others.
addConstructor_Unshift(c, constructor) ==
  [c EXCEPT !.constructors = <<constructor>> \o @]

addConstructor(c, constructor) ==
  [c EXCEPT !.constructors = Append(@, constructor)]

addMethod(c, method) == [c EXCEPT !.methods = Append(@, method)]

addNestedClass(c, nestedClass) ==
  [c EXCEPT !.nestedClasses = Append(@, nestedClass)]

addNestedInterface(c, nestedInterface) ==
  [c EXCEPT !.nestedInterfaces = Append(@, nestedInterface)]

addNestedEnum(c, nestedEnum) ==
  [c EXCEPT !.nestedEnums = Append(@, nestedEnum)]

(***************************************************************************)
(* Class.write reads nothing back from the Writer, so what it does is the   *)
(* sequence of calls it makes on the Writer, in order.  Each write method   *)
(* below is that sequence; `run` makes the calls.                           *)
(***************************************************************************)
ToWrite(text) == [op |-> "write", args |-> <<text>>]
ToWriteLine(text) == [op |-> "writeLine", args |-> <<text>>]
ToWriteLineBare == [op |-> "writeLine", args |-> <<>>]
ToNewLine == [op |-> "newLine", args |-> <<>>]
ToIndent == [op |-> "indent", args |-> <<>>]
ToDedent == [op |-> "dedent", args |-> <<>>]
ToAddReference(reference) == [op |-> "addReference", args |-> <<reference>>]

\* One call on the Writer
apply(w, c) ==
  CASE c.op = "write" -> write(w, c.args[1])
    [] c.op = "writeLine" -> writeLine(w, c.args)
    [] c.op = "newLine" -> newLine(w)
    [] c.op = "indent" -> indent(w)
    [] c.op = "dedent" -> dedent(w)
    [] c.op = "addReference" -> addReference(w, c.args[1])

\* The calls made one after another, first to last: the calls of the first
\* half are completed, giving the Writer `mid`, before those of the second half
\* are made on it.
RECURSIVE run(_, _)
run(w, calls) ==
  IF Len(calls) = 0 THEN w
  ELSE IF Len(calls) = 1 THEN apply(w, calls[1])
  ELSE LET h == Len(calls) \div 2
       IN  CHOOSE after \in {run(mid, SubSeq(calls, h + 1, Len(calls))) :
                               mid \in {run(w, SubSeq(calls, 1, h))}} : TRUE

\* The calls of a forEach whose callback makes the calls Body(element, index).
callsForEach(seq, Body(_, _)) ==
  forEach(seq, <<>>, LAMBDA calls, element, index : calls \o Body(element, index))

MockNode_calls(node) == <<ToWrite(MockNodeContent)>>

Leaf_calls(node) == <<ToWrite(node.text)>>

Parameter_calls(p) == <<ToWrite(p.type \o <<" ">> \o p.name)>>

\* A doc-comment block: "/**", one " * " line per line of the text, then the
\* lines of `more`, then " */".
javadocCalls(doc, more) ==
  <<ToWriteLine(<<"/", "*", "*">>)>>
    \o (IF truthy(doc)
        THEN callsForEach(split(doc[1], NL),
               LAMBDA line, i : <<ToWriteLine(<<" ", "*", " ">> \o line)>>)
        ELSE <<>>)
    \o more
    \o <<ToWriteLine(<<" ", "*", "/">>)>>

\* Mutant of constructorJavadoc: the block is written only for a constructor
\* that has a doc string of its own.
constructorJavadoc_OwnDocOnly(constructor) ==
  IF truthy(constructor.javadoc)
  THEN javadocCalls(constructor.javadoc,
         callsForEach(constructor.parameters,
           LAMBDA param, i :
             IF truthy(param.docs)
             THEN <<ToWriteLine(<<" ", "*", " ", "@", "p", "a", "r", "a", "m", " ">>
                                \o param.name \o <<" ">> \o param.docs[1])>>
             ELSE <<>>))
  ELSE <<>>

\* The doc-comment block of a constructor.
constructorJavadoc(constructor) ==
  IF truthy(constructor.javadoc)
     \/ \E i \in 1..Len(constructor.parameters) :
          truthy(constructor.parameters[i].docs)
  THEN javadocCalls(constructor.javadoc,
         callsForEach(constructor.parameters,
           LAMBDA param, i :
             IF truthy(param.docs)
             THEN <<ToWriteLine(<<" ", "*", " ", "@", "p", "a", "r", "a", "m", " ">>
                                \o param.name \o <<" ">> \o param.docs[1])>>
             ELSE <<>>))
  ELSE <<>>

\* The annotations of a class or constructor, each followed by a newline.
annotationCalls(annotations) ==
  callsForEach(annotations,
    LAMBDA annotation, i : Leaf_calls(annotation) \o <<ToWriteLineBare>>)

\* The signature of a constructor of class c, up to and including " {".
constructorDeclaration(c, constructor) ==
  <<ToWrite(constructor.access \o <<" ">> \o c.name \o <<"(">>)>>
    \o callsForEach(constructor.parameters,
         LAMBDA parameter, index :
           Parameter_calls(parameter)
             \o (IF index < Len(constructor.parameters) - 1
                 THEN <<ToWrite(<<",", " ">>)>> ELSE <<>>))
    \o <<ToWrite(<<")">>)>>
    \o (IF constructor.throws # None /\ Len(constructor.throws[1]) > 0
        THEN <<ToWrite(<<" ", "t", "h", "r", "o", "w", "s", " ">>)>>
               \o callsForEach(constructor.throws[1],
                    LAMBDA throwsClass, index :
                      <<ToAddReference(throwsClass), ToWrite(throwsClass.name)>>
                        \o (IF index < Len(constructor.throws[1]) - 1
                            THEN <<ToWrite(<<",", " ">>)>> ELSE <<>>))
        ELSE <<>>)
    \o <<ToWriteLine(<<" ", "{">>)>>

\* Mutant of constructorDelegation: thisCall is tested before superCall.
constructorDelegation_ThisFirst(constructor) ==
  IF constructor.thisCall # None
  THEN <<ToWrite(<<"t", "h", "i", "s", "(">>)>>
         \o Leaf_calls(constructor.thisCall[1])
         \o <<ToWriteLine(<<")", ";">>)>>
  ELSE IF constructor.superCall # None
  THEN <<ToWrite(<<"s", "u", "p", "e", "r", "(">>)>>
         \o Leaf_calls(constructor.superCall[1])
         \o <<ToWriteLine(<<")", ";">>)>>
  ELSE <<>>

\* The super(...) or this(...) call that opens a constructor's body.
constructorDelegation(constructor) ==
  IF constructor.superCall # None
  THEN <<ToWrite(<<"s", "u", "p", "e", "r", "(">>)>>
         \o Leaf_calls(constructor.superCall[1])
         \o <<ToWriteLine(<<")", ";">>)>>
  ELSE IF constructor.thisCall # None
  THEN <<ToWrite(<<"t", "h", "i", "s", "(">>)>>
         \o Leaf_calls(constructor.thisCall[1])
         \o <<ToWriteLine(<<")", ";">>)>>
  ELSE <<>>

\* Mutant of writeConstructor: the body's indent is not taken back.
writeConstructor_NoDedent(c, constructor) ==
  constructorJavadoc(constructor)
    \o (IF constructor.annotations # None
        THEN annotationCalls(constructor.annotations[1]) ELSE <<>>)
    \o constructorDeclaration(c, constructor)
    \o <<ToIndent>>
    \o constructorDelegation(constructor)
    \o (IF constructor.body # None THEN Leaf_calls(constructor.body[1]) ELSE <<>>)
    \o <<ToWriteLine(<<"}">>)>>

\* Class.writeConstructor(writer, constructor) of class c
writeConstructor(c, constructor) ==
  constructorJavadoc(constructor)
    \o (IF constructor.annotations # None
        THEN annotationCalls(constructor.annotations[1]) ELSE <<>>)
    \o constructorDeclaration(c, constructor)
    \o <<ToIndent>>
    \o constructorDelegation(constructor)
    \o (IF constructor.body # None THEN Leaf_calls(constructor.body[1]) ELSE <<>>)
    \o <<ToDedent, ToWriteLine(<<"}">>)>>

\* The doc-comment and annotations that precede a class declaration.
classHeader(c) ==
  (IF truthy(c.javadoc) THEN javadocCalls(c.javadoc, <<>>) ELSE <<>>)
    \o annotationCalls(c.annotations)

\* Mutant of className: the static modifier is written first.
className_StaticFirst(c) ==
  <<ToWrite(c.access \o <<" ">>)>>
    \o (IF c.static_
        THEN <<ToWrite(<<"s", "t", "a", "t", "i", "c", " ">>)>> ELSE <<>>)
    \o (IF c.abstract_
        THEN <<ToWrite(<<"a", "b", "s", "t", "r", "a", "c", "t", " ">>)>> ELSE <<>>)
    \o (IF c.final_ THEN <<ToWrite(<<"f", "i", "n", "a", "l", " ">>)>> ELSE <<>>)
    \o <<ToWrite(<<"c", "l", "a", "s", "s", " ">>), ToWrite(c.name)>>
    \o (IF Len(c.typeParameters) > 0
        THEN <<ToWrite(<<"<">>), ToWrite(join(c.typeParameters, <<",", " ">>)),
               ToWrite(<<">">>)>>
        ELSE <<>>)

\* The access and modifier tokens, `class`, the name and the type parameters.
className(c) ==
  <<ToWrite(c.access \o <<" ">>)>>
    \o (IF c.abstract_
        THEN <<ToWrite(<<"a", "b", "s", "t", "r", "a", "c", "t", " ">>)>> ELSE <<>>)
    \o (IF c.final_ THEN <<ToWrite(<<"f", "i", "n", "a", "l", " ">>)>> ELSE <<>>)
    \o (IF c.static_
        THEN <<ToWrite(<<"s", "t", "a", "t", "i", "c", " ">>)>> ELSE <<>>)
    \o <<ToWrite(<<"c", "l", "a", "s", "s", " ">>), ToWrite(c.name)>>
    \o (IF Len(c.typeParameters) > 0
        THEN <<ToWrite(<<"<">>), ToWrite(join(c.typeParameters, <<",", " ">>)),
               ToWrite(<<">">>)>>
        ELSE <<>>)

\* Mutant of extendsClause: the supertype is written but not registered.
extendsClause_NoReference(c) ==
  IF c.extends_ # None
  THEN <<ToWrite(<<" ", "e", "x", "t", "e", "n", "d", "s", " ">>),
         ToWrite(c.extends_[1].name)>>
  ELSE <<>>

\* The extends clause
extendsClause(c) ==
  IF c.extends_ # None
  THEN <<ToWrite(<<" ", "e", "x", "t", "e", "n", "d", "s", " ">>),
         ToAddReference(c.extends_[1]),
         ToWrite(c.extends_[1].name)>>
  ELSE <<>>

\* The implements clause
implementsClause(c) ==
  IF Len(c.implements_) > 0
  THEN <<ToWrite(<<" ", "i", "m", "p", "l", "e", "m", "e", "n", "t", "s", " ">>)>>
         \o callsForEach(c.implements_,
              LAMBDA interfaceRef, index :
                <<ToAddReference(interfaceRef), ToWrite(interfaceRef.name)>>
                  \o (IF index < Len(c.implements_) - 1
                      THEN <<ToWrite(<<",", " ">>)>> ELSE <<>>))
  ELSE <<>>

\* The class declaration, up to and including " {".
classDeclaration(c) ==
  className(c) \o extendsClause(c) \o implementsClause(c)
    \o <<ToWriteLine(<<" ", "{">>)>>

RECURSIVE Class_calls(_)

\* Mutant of Class_calls: the newline that separates nested enums is written
\* once after the section instead of after each enum.
Class_calls_BlankAfterSection(c) ==
  classHeader(c)
    \o classDeclaration(c)
    \o <<ToIndent>>
    \o callsForEach(c.fields,
         LAMBDA field, i : Leaf_calls(field) \o <<ToWriteLineBare, ToNewLine>>)
    \o callsForEach(c.constructors,
         LAMBDA constructor, i : writeConstructor(c, constructor) \o <<ToNewLine>>)
    \o callsForEach(c.methods,
         LAMBDA method, i : Leaf_calls(method) \o <<ToNewLine>>)
    \o callsForEach(c.nestedClasses,
         LAMBDA nestedClass, i : Class_calls(nestedClass) \o <<ToNewLine>>)
    \o callsForEach(c.nestedInterfaces,
         LAMBDA nestedInterface, i : Leaf_calls(nestedInterface) \o <<ToNewLine>>)
    \o callsForEach(c.nestedEnums, LAMBDA nestedEnum, i : Leaf_calls(nestedEnum))
    \o <<ToNewLine>>
    \o <<ToDedent, ToWriteLine(<<"}">>)>>

\* The calls of Class.write(writer)
Class_calls(c) ==
  classHeader(c)
    \o classDeclaration(c)
    \o <<ToIndent>>
    \o callsForEach(c.fields,
         LAMBDA field, i : Leaf_calls(field) \o <<ToWriteLineBare, ToNewLine>>)
    \o callsForEach(c.constructors,
         LAMBDA constructor, i : writeConstructor(c, constructor) \o <<ToNewLine>>)
    \o callsForEach(c.methods,
         LAMBDA method, i : Leaf_calls(method) \o <<ToNewLine>>)
    \o callsForEach(c.nestedClasses,
         LAMBDA nestedClass, i : Class_calls(nestedClass) \o <<ToNewLine>>)
    \o callsForEach(c.nestedInterfaces,
         LAMBDA nestedInterface, i : Leaf_calls(nestedInterface) \o <<ToNewLine>>)
    \o callsForEach(c.nestedEnums,
         LAMBDA nestedEnum, i : Leaf_calls(nestedEnum) \o <<ToNewLine>>)
    \o <<ToDedent, ToWriteLine(<<"}">>)>>

\* Class.write(writer)
Class_write(w, c) == run(w, Class_calls(c))

\* Writer.writeNode(node): node.write(this)
writeNode(w, node) ==
  CASE node.kind = "MockNode" -> run(w, MockNode_calls(node))
    [] node.kind = "Leaf" -> run(w, Leaf_calls(node))
    [] node.kind = "Class" -> Class_write(w, node)

----------------------------------------------------------------------------
(* Inputs *)

ComExample == <<"c", "o", "m", ".", "e", "x", "a", "m", "p", "l", "e">>
ComExampleParent ==
  <<"c", "o", "m", ".", "e", "x", "a", "m", "p", "l", "e", ".", "p", "a", "r", "e", "n", "t">>
JavaUtil == <<"j", "a", "v", "a", ".", "u", "t", "i", "l">>

RefParent == ClassReference(<<"P", "a", "r", "e", "n", "t">>, ComExampleParent)
RefFoo == ClassReference(<<"F", "o", "o">>, ComExample)
RefList == ClassReference(<<"L", "i", "s", "t">>, JavaUtil)

JavaUtilList == <<"j", "a", "v", "a", ".", "u", "t", "i", "l", ".", "L", "i", "s", "t">>
JavaxAB == <<"j", "a", "v", "a", "x", ".", "a", ".", "B">>

\* Writer configurations
Configs ==
  { [packageName |-> ComExample, skipPackageDeclaration |-> None],
    [packageName |-> ComExample, skipPackageDeclaration |-> Some(TRUE)],
    [packageName |-> JavaUtil, skipPackageDeclaration |-> Some(FALSE)] }

\* Arguments of the Writer's primitives
Texts == {<<"x">>}
LineTexts == {None, Some(<<>>), Some(<<"x">>)}
Refs == {RefFoo, RefList}
ImportNames == {JavaUtilList, JavaxAB}

----------------------------------------------------------------------------
(* The Writer's operations as actions *)

Called(op, args, ret) == [op |-> op, args |-> args, ret |-> ret]

Init ==
  /\ writer \in {Writer(config) : config \in Configs}
  /\ call = Called("new", <<>>, None)
  /\ cls = None

Indent ==
  /\ writer.indentLevel < MaxIndent
  /\ writer' = indent(writer)
  /\ call' = Called("indent", <<>>, None)
  /\ UNCHANGED cls

Dedent ==
  /\ writer' = dedent(writer)
  /\ call' = Called("dedent", <<>>, None)
  /\ UNCHANGED cls

Write ==
  \E text \in Texts :
    /\ Len(writer.buffer) <= MaxBuffer
    /\ writer' = write(writer, text)
    /\ call' = Called("write", <<text>>, None)
    /\ UNCHANGED cls

WriteLine ==
  \E text \in LineTexts :
    /\ Len(writer.buffer) <= MaxBuffer
    /\ writer' = writeLine(writer, text)
    /\ call' = Called("writeLine", text, None)
    /\ UNCHANGED cls

NewLine ==
  /\ Len(writer.buffer) <= MaxBuffer
  /\ writer' = newLine(writer)
  /\ call' = Called("newLine", <<>>, None)
  /\ UNCHANGED cls

WriteNewLineIfLastLineNot ==
  /\ writer' = writeNewLineIfLastLineNot(writer)
  /\ call' = Called("writeNewLineIfLastLineNot", <<>>, None)
  /\ UNCHANGED cls

AddReference ==
  \E reference \in Refs :
    /\ writer' = addReference(writer, reference)
    /\ call' = Called("addReference", <<reference>>, None)
    /\ UNCHANGED cls

AddImport ==
  \E importName \in ImportNames :
    /\ writer' = addImport(writer, importName)
    /\ call' = Called("addImport", <<importName>>, None)
    /\ UNCHANGED cls

WriteNode ==
  /\ Len(writer.buffer) <= MaxBuffer
  /\ writer' = writeNode(writer, MockNode)
  /\ call' = Called("writeNode", <<MockNode>>, None)
  /\ UNCHANGED cls

ToString ==
  /\ call' = Called("toString", <<>>, Some(toString(writer)))
  /\ UNCHANGED <<writer, cls>>

Next ==
  \/ Indent
  \/ Dedent
  \/ Write
  \/ WriteLine
  \/ NewLine
  \/ WriteNewLineIfLastLineNot
  \/ AddReference
  \/ AddImport
  \/ WriteNode
  \/ ToString

Spec == Init /\ [][Next]_vars

----------------------------------------------------------------------------
(* Building and writing a Class *)

\* The members of one class are at most this many.
MaxMembers == 2

BaseArgs ==
  [ name |-> <<"C", "h", "i", "l", "d">>,
    packageName |-> ComExample,
    access |-> Access_Public,
    abstract_ |-> None,
    final_ |-> None,
    static_ |-> None,
    extends_ |-> None,
    implements_ |-> None,
    isNestedClass |-> None,
    annotations |-> None,
    javadoc |-> None,
    typeParameters |-> None ]

\* Classes that differ in their supertype and interfaces
InheritanceArgs ==
  { [BaseArgs EXCEPT !.extends_ = e, !.implements_ = i] :
      e \in {None, Some(RefParent), Some(RefFoo)},
      i \in {None, Some(<<RefList>>), Some(<<RefFoo, RefList>>)} }

\* Classes that differ in their access and modifiers
ModifierArgs ==
  { [BaseArgs EXCEPT !.abstract_ = a, !.final_ = f, !.static_ = s] :
      a \in {None, Some(TRUE)}, f \in {None, Some(TRUE)},
      s \in {None, Some(TRUE)} }
  \cup { [BaseArgs EXCEPT !.access = Access_Private, !.static_ = Some(FALSE)],
         [BaseArgs EXCEPT !.abstract_ = Some(TRUE), !.final_ = Some(TRUE),
                          !.static_ = Some(TRUE),
                          !.typeParameters = Some(<<(<<"T">>), (<<"U">>)>>),
                          !.extends_ = Some(RefParent),
                          !.implements_ = Some(<<RefFoo, RefList>>)] }

\* Classes with a doc-comment, annotations and type parameters
DocumentedArgs ==
  { [BaseArgs EXCEPT !.javadoc = Some(<<"a", NL, "b">>),
                     !.annotations = Some(<<Leaf(<<"@", "A">>)>>),
                     !.typeParameters = Some(<<(<<"T">>), (<<"U">>)>>),
                     !.extends_ = Some(RefParent)],
    [BaseArgs EXCEPT !.javadoc = Some(<<>>),
                     !.typeParameters = Some(<<(<<"T">>)>>)] }

ClassArgs == InheritanceArgs \cup ModifierArgs \cup DocumentedArgs

NoArgConstructor ==
  [ body |-> None, parameters |-> <<>>, access |-> Access_Public,
    javadoc |-> None, annotations |-> None, superCall |-> None,
    thisCall |-> None, throws |-> None ]

Constructors ==
  { NoArgConstructor,
    [NoArgConstructor EXCEPT
       !.parameters = <<Parameter(<<"i", "d">>, <<"l", "o", "n", "g">>,
                                  Some(<<"d">>)),
                        Parameter(<<"n">>, <<"i", "n", "t">>, None)>>,
       !.body = Some(Leaf(<<"b", ";", NL>>)),
       !.superCall = Some(Leaf(<<"i", "d">>)),
       !.throws = Some(<<RefList>>)],
    [NoArgConstructor EXCEPT
       !.access = Access_Private,
       !.parameters = <<Parameter(<<"k">>, <<"i", "n", "t">>, Some(<<"e">>))>>,
       !.javadoc = Some(<<"c">>),
       !.annotations = Some(<<Leaf(<<"@", "A">>)>>),
       !.superCall = Some(Leaf(<<>>)),
       !.thisCall = Some(Leaf(<<"n">>))],
    [NoArgConstructor EXCEPT
       !.javadoc = Some(<<>>),
       !.body = Some(Leaf(<<"b", ";", NL>>)),
       !.thisCall = Some(Leaf(<<"n">>))] }

Fields == {Leaf(<<"f", ";">>)}
Methods == {Leaf(<<"m", NL>>)}
NestedInterfaces == {Leaf(<<"i", NL>>)}
NestedEnums == {Leaf(<<"e", NL>>)}

InnerArgs ==
  [BaseArgs EXCEPT !.name = <<"I", "n", "n", "e", "r">>,
                   !.access = Access_Private,
                   !.static_ = Some(TRUE),
                   !.isNestedClass = Some(TRUE)]

NestedClasses ==
  { Class(InnerArgs),
    addConstructor(Class([InnerArgs EXCEPT !.extends_ = Some(RefParent)]),
                   NoArgConstructor) }

MemberCount(c) ==
  Len(c.fields) + Len(c.constructors) + Len(c.methods)
    + Len(c.nestedClasses) + Len(c.nestedInterfaces) + Len(c.nestedEnums)

\* A member can be added: the class exists, has room, and nothing has been
\* written yet.
CanAdd ==
  /\ cls # None
  /\ MemberCount(cls[1]) < MaxMembers
  /\ Len(writer.buffer) <= MaxBuffer

NewClass ==
  \E args \in ClassArgs :
    /\ cls = None
    /\ cls' = Some(Class(args))
    /\ call' = Called("Class", <<args>>, None)
    /\ UNCHANGED writer

AddField ==
  \E field \in Fields :
    /\ CanAdd
    /\ cls' = Some(addField(cls[1], field))
    /\ call' = Called("addField", <<field>>, None)
    /\ UNCHANGED writer

AddConstructor ==
  \E constructor \in Constructors :
    /\ CanAdd
    /\ cls' = Some(addConstructor(cls[1], constructor))
    /\ call' = Called("addConstructor", <<constructor>>, None)
    /\ UNCHANGED writer

AddMethod ==
  \E method \in Methods :
    /\ CanAdd
    /\ cls' = Some(addMethod(cls[1], method))
    /\ call' = Called("addMethod", <<method>>, None)
    /\ UNCHANGED writer

AddNestedClass ==
  \E nestedClass \in NestedClasses :
    /\ CanAdd
    /\ cls' = Some(addNestedClass(cls[1], nestedClass))
    /\ call' = Called("addNestedClass", <<nestedClass>>, None)
    /\ UNCHANGED writer

AddNestedInterface ==
  \E nestedInterface \in NestedInterfaces :
    /\ CanAdd
    /\ cls' = Some(addNestedInterface(cls[1], nestedInterface))
    /\ call' = Called("addNestedInterface", <<nestedInterface>>, None)
    /\ UNCHANGED writer

AddNestedEnum ==
  \E nestedEnum \in NestedEnums :
    /\ CanAdd
    /\ cls' = Some(addNestedEnum(cls[1], nestedEnum))
    /\ call' = Called("addNestedEnum", <<nestedEnum>>, None)
    /\ UNCHANGED writer

\* cls.write(writer)
ClassWrite ==
  /\ cls # None
  /\ Len(writer.buffer) <= MaxBuffer
  /\ writer' = Class_write(writer, cls[1])
  /\ call' = Called("Class.write", <<>>, None)
  /\ UNCHANGED cls

NextClass ==
  \/ NewClass
  \/ AddField
  \/ AddConstructor
  \/ AddMethod
  \/ AddNestedClass
  \/ AddNestedInterface
  \/ AddNestedEnum
  \/ ClassWrite
  \/ ToString

SpecClass == Init /\ [][NextClass]_vars

----------------------------------------------------------------------------
(* Reading a document back *)

startsWith(s, p) == Len(s) >= Len(p) /\ SubSeq(s, 1, Len(p)) = p

endsWith(s, p) == Len(s) >= Len(p) /\ SubSeq(s, Len(s) - Len(p) + 1, Len(s)) = p

\* n spaces
Spaces(n) == [i \in 1..n |-> " "]

\* The lines of a text that is empty or ends in a newline, newlines dropped.
lines(text) ==
  LET parts == split(text, NL) IN SubSeq(parts, 1, Len(parts) - 1)

\* What toString puts in front of the buffer.
header(w) ==
  LET doc == toString(w) IN SubSeq(doc, 1, Len(doc) - Len(w.buffer))

isImportLine(line) ==
  /\ startsWith(line, ImportKw)
  /\ endsWith(line, <<";">>)
  /\ Len(line) > Len(ImportKw) + 1

importedName(line) == SubSeq(line, Len(ImportKw) + 1, Len(line) - 1)

\* The header's lines after the package declaration and its blank line.
importSection(w) ==
  LET ls == lines(header(w))
  IN  IF w.skipPackageDeclaration THEN ls ELSE SubSeq(ls, 3, Len(ls))

\* The names on the import lines of the document, in document order.
documentImports(w) ==
  LET ls == SelectSeq(importSection(w), isImportLine)
  IN  [i \in 1..Len(ls) |-> importedName(ls[i])]

\* How many times name occurs in a sequence of names.
Count(names, name) == Cardinality({i \in 1..Len(names) : names[i] = name})

ImportLineCount(w, name) == Count(documentImports(w), name)

\* toString has just returned the document of the current state.
Rendered == call.op = "toString" /\ call.ret = Some(toString(writer))

----------------------------------------------------------------------------
(* C1: dedup *)

\* C1 as stated: every type reference registered with addReference, and every
\* string registered with addImport, has exactly one import line in the
\* document.
C1_Original ==
  LET names == documentImports(writer)
  IN  /\ \A r \in writer.registered : Count(names, qualifiedName(r)) = 1
      /\ \A n \in writer.imports : Count(names, n) = 1

\* C1 (amended): every type reference registered with addReference whose package
\* differs from the target package, and every string registered with
\* addImport, has exactly one import line in the document, however many
\* times and in whichever of the two forms it was registered.
C1_Dedup ==
  LET names == documentImports(writer)
  IN  /\ \A r \in writer.registered :
           r.packageName # writer.packageName
             => Count(names, qualifiedName(r)) = 1
      /\ \A n \in writer.imports : Count(names, n) = 1

\* The same name registered in both forms, and rendered.
C1_Witness ==
  /\ Rendered
  /\ RefList \in writer.registered
  /\ RefList.packageName # writer.packageName
  /\ JavaUtilList \in writer.imports
  /\ qualifiedName(RefList) = JavaUtilList
  /\ ImportLineCount(writer, JavaUtilList) = 1

----------------------------------------------------------------------------
(* C2: same-package suppression *)

\* C2 as stated: the final import list has no entry for a registered type
\* reference whose package is the target package.
C2_Original ==
  LET names == documentImports(writer)
  IN  \A r \in writer.registered :
        r.packageName = writer.packageName
          => Count(names, qualifiedName(r)) = 0

\* C2 (amended): a registered type reference whose package is the target
\* package contributes nothing to the reference registry, and the final import
\* list holds its qualified name only if that string was registered through
\* addImport.
C2_SamePackage ==
  LET names == documentImports(writer)
  IN  \A r \in writer.registered :
        r.packageName = writer.packageName
          => /\ qualifiedName(r) \notin writer.references
             /\ Count(names, qualifiedName(r)) > 0
                  => qualifiedName(r) \in writer.imports

\* A same-package reference registered, other imports present, and rendered.
C2_Witness ==
  /\ Rendered
  /\ RefFoo \in writer.registered
  /\ RefFoo.packageName = writer.packageName
  /\ writer.references # {}
  /\ ImportLineCount(writer, qualifiedName(RefFoo)) = 0

----------------------------------------------------------------------------
(* C3: sort order *)

\* C3: the names on the document's import lines are in strict ascending
\* code-unit order, each line's name greater than the one before it.
C3_Sorted ==
  LET names == documentImports(writer)
  IN  \A i \in 1..Len(names) :
        \A j \in 1..Len(names) : i < j => StrLess(names[i], names[j])

\* Three imports from both registries, rendered.
C3_Witness ==
  /\ Rendered
  /\ Len(documentImports(writer)) >= 3
  /\ writer.imports # {}
  /\ writer.references # {}

----------------------------------------------------------------------------
(* C4: blank line after the import block *)

\* The import section ends with a blank line that directly follows an import
\* line.
BlankLineAfterImports(w) ==
  LET sec == importSection(w)
  IN  /\ Len(sec) >= 2
      /\ sec[Len(sec)] = <<>>
      /\ isImportLine(sec[Len(sec) - 1])

\* C4: the document has a blank line right after the import block iff the
\* merged import set is non-empty; when it is empty toString puts nothing
\* between the package declaration and the buffer.
C4_BlankLine ==
  LET sec == importSection(writer)
      union == writer.imports \cup writer.references
  IN  /\ BlankLineAfterImports(writer) <=> union # {}
      /\ union = {} => sec = <<>>
      /\ \A i \in 1..(Len(sec) - 1) : isImportLine(sec[i])

\* A rendered document with imports, hence with the blank line, before a
\* non-empty buffer.
C4_Witness ==
  /\ Rendered
  /\ writer.imports \cup writer.references # {}
  /\ BlankLineAfterImports(writer)
  /\ writer.buffer # <<>>

----------------------------------------------------------------------------
(* C5: the document *)

FreshComExample ==
  Writer([packageName |-> ComExample, skipPackageDeclaration |-> None])

\* C5: the document is the package line and a blank line (nothing when
\* suppressed), one import line per member of the union of the two
\* registries, a blank line when the union is non-empty, and the buffer
\* unchanged; a fresh Writer for com.example returns "package com.example;\n\n".
C5_Document ==
  LET doc == toString(writer)
      pkg == IF writer.skipPackageDeclaration THEN <<>>
             ELSE PackageKw \o writer.packageName \o <<";", NL, NL>>
      union == writer.imports \cup writer.references
      sec == importSection(writer)
      n == Cardinality(union)
  IN  /\ startsWith(doc, pkg)
      /\ endsWith(doc, writer.buffer)
      /\ Len(doc) = Len(pkg) + Len(join(sec, <<NL>>))
                      + (IF n > 0 THEN 1 ELSE 0) + Len(writer.buffer)
      /\ Len(sec) = IF n > 0 THEN n + 1 ELSE 0
      /\ {sec[i] : i \in 1..n} = {ImportKw \o name \o <<";">> : name \in union}
      /\ n > 0 => sec[n + 1] = <<>>
      /\ call.op = "toString" => call.ret = Some(doc)
      /\ writer = FreshComExample
           => doc = <<"p", "a", "c", "k", "a", "g", "e", " ",
                      "c", "o", "m", ".", "e", "x", "a", "m", "p", "l", "e",
                      ";", NL, NL>>

\* A rendered document with a package line, imports from both registries and
\* a non-empty buffer.
C5_Witness ==
  /\ Rendered
  /\ ~writer.skipPackageDeclaration
  /\ Cardinality(writer.imports \cup writer.references) >= 3
  /\ writer.buffer # <<>>

----------------------------------------------------------------------------
(* C6: the trailing-newline guard *)

\* C6: a call of writeNewLineIfLastLineNot leaves a state that a second call
\* does not change; the call appends at most one newline, and none to an
\* empty buffer or to one that ends in a newline.
C6_Idempotent ==
  [][call'.op = "writeNewLineIfLastLineNot" =>
       /\ writeNewLineIfLastLineNot(writer') = writer'
       /\ writer.buffer = <<>> => writer' = writer
       /\ endsWith(writer.buffer, <<NL>>) => writer' = writer
       /\ \/ writer' = writer
          \/ writer' = [writer EXCEPT !.buffer = @ \o <<NL>>]
       /\ ~endsWith(writer.buffer, <<NL, NL>>)
            => ~endsWith(writer'.buffer, <<NL, NL>>)]_vars

\* The guard has acted on a buffer that did not end in a newline.
C6_Witness ==
  /\ call.op = "writeNewLineIfLastLineNot"
  /\ writer.buffer = <<"x", NL>>

----------------------------------------------------------------------------
(* C7: the indent floor *)

\* C7: the indent level is a natural number in every state; dedent at level
\* zero leaves the Writer as it is, and writeLine then appends the text and a
\* newline with nothing before them.
C7_IndentFloor ==
  /\ writer.indentLevel \in Nat
  /\ writer.indentLevel = 0 =>
       /\ dedent(writer) = writer
       /\ \A text \in Texts :
            writeLine(dedent(writer), Some(text)).buffer
              = writer.buffer \o text \o <<NL>>

\* dedent has been called at level zero.
C7_Witness ==
  /\ call.op = "dedent"
  /\ writer.indentLevel = 0
  /\ writer.buffer # <<>>

----------------------------------------------------------------------------
(* C8: write and writeLine *)

\* C8: writeLine(text) appends 4 * indentLevel spaces, the text and a newline;
\* writeLine() appends a newline only; write(text) appends the text only.
C8_WriteLine ==
  [][/\ call'.op = "writeLine" /\ call'.args # <<>> =>
          writer'.buffer = writer.buffer \o Spaces(4 * writer.indentLevel)
                             \o call'.args[1] \o <<NL>>
     /\ call'.op = "writeLine" /\ call'.args = <<>> =>
          writer'.buffer = writer.buffer \o <<NL>>
     /\ call'.op = "write" =>
          writer'.buffer = writer.buffer \o call'.args[1]]_vars

\* writeLine("x") has acted at indent level 2.
C8_Witness ==
  /\ call.op = "writeLine"
  /\ call.args = <<(<<"x">>)>>
  /\ writer.indentLevel = 2
  /\ writer.buffer = Spaces(8) \o <<"x", NL>>

----------------------------------------------------------------------------
(* C9: the buffer is append-only *)

\* C9: every operation leaves the buffer it found as a prefix of the buffer
\* it leaves.
C9_AppendOnly == [][startsWith(writer'.buffer, writer.buffer)]_vars

\* Several operations have appended to the buffer one after another.
C9_Witness ==
  /\ call.op \in {"write", "writeLine", "newLine", "writeNode"}
  /\ Len(writer.buffer) >= 3

----------------------------------------------------------------------------
(* C10: extends and implements *)

\* text has sub somewhere inside it.
contains(text, sub) ==
  \E i \in 0..(Len(text) - Len(sub)) : SubSeq(text, i + 1, i + Len(sub)) = sub

\* The supertype, if any, then the interfaces, in declaration order.
supertypes(c) ==
  (IF c.extends_ # None THEN <<c.extends_[1]>> ELSE <<>>) \o c.implements_

\* The references that the calls of a class declaration register, in order.
declarationReferences(c) ==
  LET cs == SelectSeq(classDeclaration(c), LAMBDA x : x.op = "addReference")
  IN  [i \in 1..Len(cs) |-> cs[i].args[1]]

\* The clauses that follow the class name on the declaration line, written with
\* simple names.
expectedClauses(c) ==
  (IF c.extends_ # None
   THEN <<" ", "e", "x", "t", "e", "n", "d", "s", " ">> \o c.extends_[1].name
   ELSE <<>>)
    \o (IF Len(c.implements_) > 0
        THEN <<" ", "i", "m", "p", "l", "e", "m", "e", "n", "t", "s", " ">>
               \o join([i \in 1..Len(c.implements_) |-> c.implements_[i].name],
                       <<",", " ">>)
        ELSE <<>>)
    \o <<" ", "{">>

\* The first line of a text that opens a block.
declarationLine(text) ==
  LET ls == lines(text)
      first == CHOOSE i \in 1..Len(ls) :
                 /\ endsWith(ls[i], <<" ", "{">>)
                 /\ \A j \in 1..(i - 1) : ~endsWith(ls[j], <<" ", "{">>)
  IN  ls[first]

\* The class has been written to the Writer.
ClassWritten == cls # None /\ writer.buffer # <<>>

\* C10: once Class.write has rendered a class, every extends/implements type
\* has been registered with the Writer, one addReference call per type; the
\* declaration line ends with the extends and implements clauses written with
\* simple names only (interfaces comma-joined) and holds no qualified name; and
\* the document has exactly one import line for each such type of another
\* package and none for a type of the target package.
C10_Inheritance ==
  ClassWritten =>
    LET c == cls[1]
        line == declarationLine(writer.buffer)
        names == documentImports(writer)
    IN  /\ declarationReferences(c) = supertypes(c)
        /\ \A i \in 1..Len(supertypes(c)) :
             supertypes(c)[i] \in writer.registered
        /\ endsWith(line, c.name \o (IF Len(c.typeParameters) > 0
                                     THEN <<"<">> \o join(c.typeParameters, <<",", " ">>)
                                            \o <<">">>
                                     ELSE <<>>)
                            \o expectedClauses(c))
        /\ ~contains(line, <<".">>)
        /\ contains(writer.buffer, expectedClauses(c))
        /\ \A i \in 1..Len(supertypes(c)) :
             LET t == supertypes(c)[i]
             IN  Count(names, qualifiedName(t)) =
                   IF t.packageName = writer.packageName THEN 0 ELSE 1

\* A class extending (Parent, com.example.parent) and implementing
\* (Foo, com.example) and (List, java.util) has been written for the target
\* package com.example and rendered: `extends Parent implements Foo, List` is
\* in the body, Parent and List are imported once each, Foo is not imported.
C10_Witness ==
  /\ ClassWritten
  /\ Rendered
  /\ writer.packageName = ComExample
  /\ cls[1].extends_ = Some(RefParent)
  /\ cls[1].implements_ = <<RefFoo, RefList>>
  /\ contains(writer.buffer,
       <<"e", "x", "t", "e", "n", "d", "s", " ", "P", "a", "r", "e", "n", "t",
         " ", "i", "m", "p", "l", "e", "m", "e", "n", "t", "s", " ",
         "F", "o", "o", ",", " ", "L", "i", "s", "t", " ", "{">>)
  /\ contains(header(writer),
       ImportKw \o ComExampleParent \o <<".", "P", "a", "r", "e", "n", "t", ";", NL>>)
  /\ ImportLineCount(writer, qualifiedName(RefParent)) = 1
  /\ ImportLineCount(writer, qualifiedName(RefList)) = 1
  /\ ImportLineCount(writer, qualifiedName(RefFoo)) = 0

----------------------------------------------------------------------------
(* Reading a class body back *)

\* A line without the brace that opens a block and the spaces before it.
trimBrace(line) ==
  LET keep == {k \in 1..Len(line) : line[k] \notin {" ", "{"}}
  IN  IF keep = {} THEN <<>>
      ELSE SubSeq(line, 1, CHOOSE k \in keep : \A j \in keep : j <= k)

\* The number of spaces a line begins with.
indentation(line) ==
  Cardinality({k \in 1..Len(line) : \A j \in 1..k : line[j] = " "})

\* The comma-joined simple names of a sequence of references.
simpleNames(refs) ==
  join([i \in 1..Len(refs) |-> refs[i].name], <<",", " ">>)

\* The declaration of class c as Java text, without the opening brace.
declarationText(c) ==
  c.access \o <<" ">>
    \o (IF c.abstract_ THEN <<"a", "b", "s", "t", "r", "a", "c", "t", " ">> ELSE <<>>)
    \o (IF c.final_ THEN <<"f", "i", "n", "a", "l", " ">> ELSE <<>>)
    \o (IF c.static_ THEN <<"s", "t", "a", "t", "i", "c", " ">> ELSE <<>>)
    \o <<"c", "l", "a", "s", "s", " ">> \o c.name
    \o (IF Len(c.typeParameters) > 0
        THEN <<"<">> \o join(c.typeParameters, <<",", " ">>) \o <<">">>
        ELSE <<>>)
    \o (IF c.extends_ # None
        THEN <<" ", "e", "x", "t", "e", "n", "d", "s", " ">> \o c.extends_[1].name
        ELSE <<>>)
    \o (IF Len(c.implements_) > 0
        THEN <<" ", "i", "m", "p", "l", "e", "m", "e", "n", "t", "s", " ">>
               \o simpleNames(c.implements_)
        ELSE <<>>)

\* The signature of a constructor of class c as Java text, without the brace.
signatureText(c, constructor) ==
  constructor.access \o <<" ">> \o c.name \o <<"(">>
    \o join([i \in 1..Len(constructor.parameters) |->
               constructor.parameters[i].type \o <<" ">>
                 \o constructor.parameters[i].name], <<",", " ">>)
    \o <<")">>
    \o (IF constructor.throws # None /\ Len(constructor.throws[1]) > 0
        THEN <<" ", "t", "h", "r", "o", "w", "s", " ">>
               \o simpleNames(constructor.throws[1])
        ELSE <<>>)

\* The first line of the text of a leaf member.
leafText(node) == split(node.text, NL)[1]

\* The line is the signature line of a constructor of class c.
isConstructorLine(c, line) == contains(line, c.name \o <<"(">>)

\* The line is the declaration line of a class nested in c.
isNestedClassLine(c, line) ==
  /\ contains(line, <<"c", "l", "a", "s", "s", " ">>)
  /\ ~contains(line, <<"c", "l", "a", "s", "s", " ">> \o c.name)

\* The line is the first line of a field, method, nested interface or enum.
isLeafLine(line) ==
  \E node \in Fields \cup Methods \cup NestedInterfaces \cup NestedEnums :
    line = leafText(node)

\* The lines of a written class c that begin a member of c, in document order,
\* each without its opening brace.
memberLines(c, text) ==
  LET ls == lines(text)
      at == SelectSeq([i \in 1..Len(ls) |-> i],
              LAMBDA i : \/ isLeafLine(ls[i])
                         \/ isConstructorLine(c, ls[i])
                         \/ isNestedClassLine(c, ls[i]))
  IN  [k \in 1..Len(at) |-> trimBrace(ls[at[k]])]

----------------------------------------------------------------------------
(* C11: order of the body sections *)

\* The members of c as the claim orders them: section by section, each section
\* in the order its members were added.
expectedMembers(c) ==
  [i \in 1..Len(c.fields) |-> leafText(c.fields[i])]
    \o [i \in 1..Len(c.constructors) |-> signatureText(c, c.constructors[i])]
    \o [i \in 1..Len(c.methods) |-> leafText(c.methods[i])]
    \o [i \in 1..Len(c.nestedClasses) |-> declarationText(c.nestedClasses[i])]
    \o [i \in 1..Len(c.nestedInterfaces) |-> leafText(c.nestedInterfaces[i])]
    \o [i \in 1..Len(c.nestedEnums) |-> leafText(c.nestedEnums[i])]

\* The member list that an add* method appends to.
membersOf(c, op) ==
  CASE op = "addField" -> c.fields
    [] op = "addConstructor" -> c.constructors
    [] op = "addMethod" -> c.methods
    [] op = "addNestedClass" -> c.nestedClasses
    [] op = "addNestedInterface" -> c.nestedInterfaces
    [] op = "addNestedEnum" -> c.nestedEnums

AddOps ==
  {"addField", "addConstructor", "addMethod", "addNestedClass",
   "addNestedInterface", "addNestedEnum"}

\* C11: every add* call puts its member after the members added to the same
\* section before it, and Class.write writes the members in the order fields,
\* constructors, methods, nested classes, nested interfaces, nested enums,
\* whatever the order of the add* calls, each section in the order its members
\* were added.
C11_SectionOrder ==
  [][/\ call'.op \in AddOps =>
          membersOf(cls'[1], call'.op)
            = Append(membersOf(cls[1], call'.op), call'.args[1])
     /\ call'.op = "Class.write" =>
          memberLines(cls[1], writer'.buffer) = expectedMembers(cls[1])]_vars

\* A class to which two constructors with different signatures were added has
\* been written, and both signature lines are in its body.
C11_Witness ==
  /\ ClassWritten
  /\ Len(cls[1].constructors) = 2
  /\ cls[1].constructors[1] # cls[1].constructors[2]
  /\ signatureText(cls[1], cls[1].constructors[1])
       # signatureText(cls[1], cls[1].constructors[2])
  /\ Len(memberLines(cls[1], writer.buffer)) = 2

----------------------------------------------------------------------------
(* C12: empty sections *)

\* The members of a class and of the classes nested in it.
RECURSIVE TotalMembers(_)
TotalMembers(c) ==
  LET RECURSIVE nested(_)
      nested(n) == IF n = 0 THEN 0
                   ELSE nested(n - 1) + TotalMembers(c.nestedClasses[n])
  IN  MemberCount(c) + nested(Len(c.nestedClasses))

\* The number of empty lines of a text.
BlankLines(text) ==
  LET ls == lines(text) IN Cardinality({i \in 1..Len(ls) : ls[i] = <<>>})

\* C12: a written class has one blank line per member and none for a section
\* without members; a class without any member is written as its declaration
\* line followed directly by the line of the closing brace.
C12_EmptySections ==
  ClassWritten =>
    LET c == cls[1]
        ls == lines(writer.buffer)
    IN  /\ BlankLines(writer.buffer) = TotalMembers(c)
        /\ MemberCount(c) = 0 =>
             /\ Len(ls) >= 2
             /\ ls[Len(ls)] = <<"}">>
             /\ ls[Len(ls) - 1] = declarationText(c) \o <<" ", "{">>

\* A class without members, extending another, has been written: the buffer
\* is its declaration line and the line of the closing brace.
C12_Witness ==
  /\ ClassWritten
  /\ MemberCount(cls[1]) = 0
  /\ cls[1].extends_ # None
  /\ writer.buffer = declarationText(cls[1]) \o <<" ", "{", NL, "}", NL>>

----------------------------------------------------------------------------
(* C13: constructor doc-comments *)

\* The constructor has a doc string of its own or a documented parameter.
hasDocs(constructor) ==
  \/ constructor.javadoc # None /\ constructor.javadoc[1] # <<>>
  \/ \E i \in 1..Len(constructor.parameters) :
       /\ constructor.parameters[i].docs # None
       /\ constructor.parameters[i].docs[1] # <<>>

\* The @param lines of a constructor: one per documented parameter.
paramLines(constructor) ==
  LET ps == SelectSeq(constructor.parameters,
              LAMBDA p : p.docs # None /\ p.docs[1] # <<>>)
  IN  [i \in 1..Len(ps) |->
         <<" ", "*", " ", "@", "p", "a", "r", "a", "m", " ">>
           \o ps[i].name \o <<" ">> \o ps[i].docs[1]]

\* The doc-comment block the claim expects before a constructor written at
\* nesting depth 1.
expectedDocBlock(constructor) ==
  IF ~hasDocs(constructor) THEN <<>>
  ELSE LET own == IF constructor.javadoc # None /\ constructor.javadoc[1] # <<>>
                  THEN LET ds == split(constructor.javadoc[1], NL)
                       IN  [i \in 1..Len(ds) |-> <<" ", "*", " ">> \o ds[i]]
                  ELSE <<>>
           block == <<(<<"/", "*", "*">>)>> \o own \o paramLines(constructor)
                      \o <<(<<" ", "*", "/">>)>>
       IN  [i \in 1..Len(block) |-> Spaces(4) \o block[i]]

\* Where the signature lines of the constructors of c are, in document order.
constructorAt(c, ls) ==
  SelectSeq([i \in 1..Len(ls) |-> i], LAMBDA i : isConstructorLine(c, ls[i]))

\* The number of annotations of a constructor.
annotationCount(constructor) ==
  IF constructor.annotations = None THEN 0 ELSE Len(constructor.annotations[1])

\* C13: in a written class, the lines before the signature (and annotations) of
\* each constructor are its doc-comment block when it has a doc string or a
\* documented parameter, with one @param line per documented parameter and none
\* for the others, and no doc-comment ends right before them otherwise.
C13_ConstructorDocs ==
  ClassWritten =>
    LET c == cls[1]
        ls == lines(writer.buffer)
        at == constructorAt(c, ls)
    IN  /\ Len(at) = Len(c.constructors)
        /\ \A k \in 1..Len(at) :
             LET constructor == c.constructors[k]
                 block == expectedDocBlock(constructor)
                 last == at[k] - annotationCount(constructor) - 1
                 first == last - Len(block) + 1
             IN  /\ first > 1
                 /\ SubSeq(ls, first, last) = block
                 /\ ~endsWith(ls[first - 1], <<"*", "/">>)
                 /\ hasDocs(constructor) <=> endsWith(ls[last], <<"*", "/">>)

\* A constructor without a doc string but with one documented and one
\* undocumented parameter has been written: its block holds the one @param line.
C13_Witness ==
  /\ ClassWritten
  /\ Len(cls[1].constructors) = 1
  /\ cls[1].constructors[1].javadoc = None
  /\ Len(cls[1].constructors[1].parameters) = 2
  /\ contains(writer.buffer,
       <<NL>> \o Spaces(4) \o <<"/", "*", "*", NL>>
         \o Spaces(4) \o <<" ", "*", " ", "@", "p", "a", "r", "a", "m", " ",
                           "i", "d", " ", "d", NL>>
         \o Spaces(4) \o <<" ", "*", "/", NL>>)

----------------------------------------------------------------------------
(* C14: indentation of the lines a class writes *)

\* A line without the spaces it begins with.
unindented(line) == SubSeq(line, indentation(line) + 1, Len(line))

\* The nesting depth at line i: the blocks opened and not yet closed before it.
depthAt(ls, i) ==
  Cardinality({j \in 1..(i - 1) : endsWith(ls[j], <<"{">>)})
    - Cardinality({j \in 1..(i - 1) : unindented(ls[j]) = <<"}">>})

isClosingBrace(line) == unindented(line) = <<"}">>

isDocOpening(line) == unindented(line) = <<"/", "*", "*">>

\* A line of a doc-comment after its first: " * text" or " */".
isDocContinuation(line) == startsWith(unindented(line), <<"*">>)

\* A class declaration line or a constructor signature line.
isOpeningLine(line) ==
  /\ endsWith(line, <<"{">>)
  /\ \/ contains(line, <<"c", "l", "a", "s", "s", " ">>)
     \/ contains(line, <<"(">>)

\* C14 as stated: in a written class tree every class declaration line,
\* doc-comment line, constructor signature line and closing brace at nesting
\* depth d begins with exactly 4*d spaces, and an opening brace follows its
\* declaration on the same line after a single space.
C14_Indentation ==
  ClassWritten =>
    LET ls == lines(writer.buffer)
    IN  \A i \in 1..Len(ls) :
          LET d == depthAt(ls, i)
          IN  /\ isOpeningLine(ls[i]) =>
                   /\ indentation(ls[i]) = 4 * d
                   /\ ls[i] = trimBrace(ls[i]) \o <<" ", "{">>
              /\ isDocOpening(ls[i]) => indentation(ls[i]) = 4 * d
              /\ isDocContinuation(ls[i]) => indentation(ls[i]) = 4 * d + 1
              /\ isClosingBrace(ls[i]) => indentation(ls[i]) = 4 * (d - 1)

----------------------------------------------------------------------------
(* A class written several times, at any indent level *)

\* How many times a class may be written to the same Writer
MaxWrites == 2

\* The number of times the class has been written: its declaration lines in
\* the buffer.
WriteCount ==
  LET decl == <<"c", "l", "a", "s", "s", " ">> \o cls[1].name
      text == writer.buffer
  IN  Cardinality({i \in 1..(Len(text) - Len(decl) + 1) :
                     text[i] = "c" /\ SubSeq(text, i, i + Len(decl) - 1) = decl})

\* new Class(args), for a plain or a documented class
NewPlainClass ==
  \E args \in {BaseArgs} \cup DocumentedArgs :
    /\ cls = None
    /\ cls' = Some(Class(args))
    /\ call' = Called("Class", <<args>>, None)
    /\ UNCHANGED writer

\* writer.indent() and writer.dedent() before anything is written: they set the
\* level the class is written at.
IndentStart == writer.buffer = <<>> /\ Indent

DedentStart == writer.buffer = <<>> /\ Dedent

\* cls.write(writer), on a Writer that may hold earlier output
ClassWriteAgain ==
  /\ cls # None
  /\ WriteCount < MaxWrites
  /\ writer' = Class_write(writer, cls[1])
  /\ call' = Called("Class.write", <<>>, None)
  /\ UNCHANGED cls

NextBalance ==
  \/ NewPlainClass
  \/ AddField
  \/ AddConstructor
  \/ AddMethod
  \/ AddNestedClass
  \/ AddNestedInterface
  \/ AddNestedEnum
  \/ IndentStart
  \/ DedentStart
  \/ ClassWriteAgain

SpecBalance == Init /\ [][NextBalance]_vars

----------------------------------------------------------------------------
(* C15: indent balance *)

\* C15: every Class.write leaves the Writer's indent level as it found it,
\* whatever the class's members, the level it starts from, and the output the
\* Writer already holds.
C15_IndentBalance ==
  [][call'.op = "Class.write" => writer'.indentLevel = writer.indentLevel]_vars

\* A class with a constructor and a nested class has been written for the
\* second time to a Writer at indent level 2.
C15_Witness ==
  /\ cls # None
  /\ call.op = "Class.write"
  /\ WriteCount = 2
  /\ writer.indentLevel = 2
  /\ Len(cls[1].constructors) = 1
  /\ Len(cls[1].nestedClasses) = 1
  /\ Len(cls[1].nestedClasses[1].constructors) = 1

----------------------------------------------------------------------------
(* C16: the class declaration line *)

\* The declaration lines of the classes nested in c, in document order, each
\* without its opening brace.
nestedDeclarations(c, text) ==
  LET ls == SelectSeq(lines(text), LAMBDA l : isNestedClassLine(c, l))
  IN  [k \in 1..Len(ls) |-> trimBrace(ls[k])]

\* C16: the declaration of a written class, and of every class nested in it,
\* is one line made of the access token, the modifiers that are set in the
\* order abstract, final, static, `class`, the name, the comma-joined type
\* parameters in angle brackets when there are any, the extends clause when
\* there is a supertype and the implements clause when there are interfaces,
\* and of nothing else before the opening brace.
C16_DeclarationLine ==
  ClassWritten =>
    LET c == cls[1]
        line == declarationLine(writer.buffer)
    IN  /\ trimBrace(line) = declarationText(c)
        /\ endsWith(line, <<" ", "{">>)
        /\ nestedDeclarations(c, writer.buffer)
             = [k \in 1..Len(c.nestedClasses) |->
                  declarationText(c.nestedClasses[k])]

\* A class with every modifier, type parameters, a supertype and interfaces
\* has been written.
C16_Witness ==
  /\ ClassWritten
  /\ cls[1].abstract_ /\ cls[1].final_ /\ cls[1].static_
  /\ startsWith(writer.buffer,
       <<"p", "u", "b", "l", "i", "c", " ",
         "a", "b", "s", "t", "r", "a", "c", "t", " ",
         "f", "i", "n", "a", "l", " ", "s", "t", "a", "t", "i", "c", " ",
         "c", "l", "a", "s", "s", " ", "C", "h", "i", "l", "d",
         "<", "T", ",", " ", "U", ">", " ",
         "e", "x", "t", "e", "n", "d", "s", " ", "P", "a", "r", "e", "n", "t", " ",
         "i", "m", "p", "l", "e", "m", "e", "n", "t", "s", " ",
         "F", "o", "o", ",", " ", "L", "i", "s", "t", " ", "{", NL>>)

----------------------------------------------------------------------------
(* C17: super and this delegation *)

SuperKw == <<"s", "u", "p", "e", "r", "(">>
ThisKw == <<"t", "h", "i", "s", "(">>

isDelegationLine(line) == startsWith(line, SuperKw) \/ startsWith(line, ThisKw)

\* C17: in a written class the lines of each constructor's body are: a
\* `super(...)` call when superCall is set, also when thisCall is set too, else
\* a `this(...)` call when thisCall is set, else no delegation call; then the
\* constructor body when there is one; then the closing brace.  No other line
\* of the body is a delegation call.
C17_Delegation ==
  ClassWritten =>
    LET c == cls[1]
        ls == lines(writer.buffer)
        at == constructorAt(c, ls)
    IN  /\ Len(at) = Len(c.constructors)
        /\ \A k \in 1..Len(at) :
             LET constructor == c.constructors[k]
                 delegates == constructor.superCall # None
                                \/ constructor.thisCall # None
                 n == IF delegates THEN 1 ELSE 0
                 m == IF constructor.body # None THEN 1 ELSE 0
                 close == at[k] + n + m + 1
             IN  /\ close <= Len(ls)
                 /\ ls[close] = Spaces(4) \o <<"}">>
                 /\ constructor.superCall # None =>
                      /\ startsWith(ls[at[k] + 1],
                           SuperKw \o constructor.superCall[1].text)
                      /\ endsWith(ls[at[k] + 1], <<")", ";">>)
                 /\ constructor.superCall = None /\ constructor.thisCall # None =>
                      /\ startsWith(ls[at[k] + 1],
                           ThisKw \o constructor.thisCall[1].text)
                      /\ endsWith(ls[at[k] + 1], <<")", ";">>)
                 /\ constructor.body # None =>
                      ls[at[k] + n + 1] = leafText(constructor.body[1])
                 /\ \A j \in (at[k] + 1)..close :
                      isDelegationLine(ls[j]) => delegates /\ j = at[k] + 1

\* A class has been written whose first constructor was given both superCall
\* and thisCall and whose second was given thisCall and a body: the buffer
\* holds one super call and one this call.
C17_Witness ==
  /\ ClassWritten
  /\ Len(cls[1].constructors) = 2
  /\ cls[1].constructors[1].superCall # None
  /\ cls[1].constructors[1].thisCall # None
  /\ cls[1].constructors[2].superCall = None
  /\ cls[1].constructors[2].thisCall # None
  /\ cls[1].constructors[2].body # None
  /\ LET ls == lines(writer.buffer)
     IN  /\ Cardinality({j \in 1..Len(ls) : startsWith(ls[j], SuperKw)}) = 1
         /\ Cardinality({j \in 1..Len(ls) : startsWith(ls[j], ThisKw)}) = 1

====
